---- MODULE Spec2Model ----
(***************************************************************************)
(* Model of the Pi-theorem calculator: the engine apply_pi_theorem         *)
(* (pi_theorem.py) and the table / result widgets of PiTheoremApp          *)
(* (gui.py).  The linear algebra the engine delegates to the matrix        *)
(* library (construction, transpose, rank, nullspace) is modelled as exact *)
(* rational row reduction, the way the library computes it.                *)
(***************************************************************************)
EXTENDS Integers, Sequences, FiniteSets

VARIABLES
    variables,              \* engine: the caller's mapping, a sequence of <<name, exponents>>
    output,                 \* engine: the `output` argument of the last call
    pc,                     \* engine: "ready" | "returned" | "raised"
    result,                 \* engine: the value the call returned
    error,                  \* engine: the exception the call raised ("" if none)
    stdout,                 \* engine: what the call printed
    self_variables,         \* gui: PiTheoremApp.variables (insertion-ordered dict)
    table,                  \* gui: rows of PiTheoremApp.table
    result_text,            \* gui: blocks shown in result_text
    result_text_clipboard,  \* gui: lines held by the hidden result_text_clipboard
    clipboard,              \* gui: text on the system clipboard
    message,                \* gui: the last QMessageBox.critical shown ("" if none)
    clicks                  \* gui: number of button clicks handled so far

vars == <<variables, output, pc, result, error, stdout, self_variables, table,
          result_text, result_text_clipboard, clipboard, message, clicks>>

engineVars == <<variables, output, pc, result, error, stdout>>
guiVars == <<self_variables, table, result_text, result_text_clipboard,
             clipboard, message, clicks>>

----------------------------------------------------------------------------
(* Bounds of the model *)

MaxVars == 3

MaxClicks == 4

\* lengths of the exponent vectors the engine is called with
DimLengths == {1, 2}

\* exponent values the engine is called with
Exponents == {-1, 0, 1}

\* names given to the engine's variables, by position
VarNames == <<"a", "b", "c", "d", "e">>

----------------------------------------------------------------------------
(* Exact rational numbers: <<numerator, denominator>>, denominator > 0,    *)
(* in lowest terms.                                                        *)

Abs(n) == IF n < 0 THEN -n ELSE n

RECURSIVE GCD(_, _)
GCD(a, b) == IF b = 0 THEN a ELSE GCD(b, a % b)

Frac(n, d) ==
    LET g == GCD(Abs(n), Abs(d))
        s == IF d < 0 THEN -1 ELSE 1
    IN  <<(s * n) \div g, (s * d) \div g>>

Rat(n) == <<n, 1>>

RZero == <<0, 1>>

ROne == <<1, 1>>

RIsZero(x) == x[1] = 0

RAdd(x, y) == Frac(x[1] * y[2] + y[1] * x[2], x[2] * y[2])

RSub(x, y) == Frac(x[1] * y[2] - y[1] * x[2], x[2] * y[2])

RMul(x, y) == Frac(x[1] * y[1], x[2] * y[2])

RDiv(x, y) == Frac(x[1] * y[2], x[2] * y[1])

----------------------------------------------------------------------------
(* Matrices: [rows, cols, m], m a sequence of `rows` rows of `cols`        *)
(* rationals.                                                              *)

\* sp.Matrix(list of lists): one row per list; lists of different lengths
\* are refused ("mismatched dimensions"); the empty list is the 0 x 0 matrix
\* faulty variant of Ragged: the empty list is refused as well
RaggedOrEmpty(dimensions) ==
    \/ Len(dimensions) = 0
    \/ \E i, j \in 1..Len(dimensions) : Len(dimensions[i]) # Len(dimensions[j])

Ragged(dimensions) ==
    \E i, j \in 1..Len(dimensions) : Len(dimensions[i]) # Len(dimensions[j])

\* the length of the longest row
RECURSIVE MaxLen(_, _)
MaxLen(dimensions, i) ==
    IF i > Len(dimensions) THEN 0
    ELSE LET rest == MaxLen(dimensions, i + 1)
         IN  IF Len(dimensions[i]) > rest THEN Len(dimensions[i]) ELSE rest

\* faulty variant of Matrix: short rows are padded with zeros, nothing is raised
MatrixPadded(dimensions) ==
    [raised |-> FALSE,
     rows   |-> Len(dimensions),
     cols   |-> MaxLen(dimensions, 1),
     m      |-> [i \in 1..Len(dimensions) |->
                   [j \in 1..MaxLen(dimensions, 1) |->
                      IF j <= Len(dimensions[i]) THEN Rat(dimensions[i][j])
                      ELSE RZero]]]

\* `raised`: the constructor raised ValueError instead of building a matrix
Matrix(dimensions) ==
    IF Ragged(dimensions)
    THEN [raised |-> TRUE, rows |-> 0, cols |-> 0, m |-> <<>>]
    ELSE [raised |-> FALSE,
          rows   |-> Len(dimensions),
          cols   |-> IF Len(dimensions) = 0 THEN 0 ELSE Len(dimensions[1]),
          m      |-> [i \in 1..Len(dimensions) |->
                        [j \in 1..Len(dimensions[i]) |-> Rat(dimensions[i][j])]]]

Transpose(M) ==
    [raised |-> M.raised,
     rows   |-> M.cols,
     cols   |-> M.rows,
     m      |-> [i \in 1..M.cols |-> [j \in 1..M.rows |-> M.m[j][i]]]]

\* faulty variant of FindPivot: only the pivot row itself is looked at
FindPivotNoSearch(M, r, c) ==
    IF r <= M.rows /\ ~RIsZero(M.m[r][c]) THEN r ELSE 0

\* offset of the first non-zero entry of column c at or below row r (0: none)
RECURSIVE FindPivot(_, _, _)
FindPivot(M, r, c) ==
    IF r > M.rows THEN 0
    ELSE IF ~RIsZero(M.m[r][c]) THEN r
    ELSE FindPivot(M, r + 1, c)

RowSwap(m, i, j) ==
    [k \in 1..Len(m) |-> IF k = i THEN m[j] ELSE IF k = j THEN m[i] ELSE m[k]]

\* row <- pivot_val * row - val * pivot_row
CrossCancel(row, prow, pivot_val, val) ==
    [j \in 1..Len(row) |-> RSub(RMul(pivot_val, row[j]), RMul(val, prow[j]))]

\* zero the pivot column below (and, for rref, above) the pivot
Eliminate(m, piv_row, piv_col, zero_above) ==
    [k \in 1..Len(m) |->
        IF k = piv_row \/ (~zero_above /\ k < piv_row) \/ RIsZero(m[k][piv_col])
        THEN m[k]
        ELSE CrossCancel(m[k], m[piv_row], m[piv_row][piv_col], m[k][piv_col])]

\* the library's row reduction: walk the columns, take the first non-zero
\* entry as the pivot, swap it up, cross-cancel the other rows; returns the
\* reduced rows and the pivot columns (normalisation comes last)
RECURSIVE RowReduceFrom(_, _, _, _, _)
RowReduceFrom(M, piv_row, piv_col, pivots, zero_above) ==
    IF piv_col > M.cols \/ piv_row > M.rows
    THEN [m |-> M.m, pivots |-> pivots]
    ELSE LET p == FindPivot(M, piv_row, piv_col)
         IN  IF p = 0
             THEN RowReduceFrom(M, piv_row, piv_col + 1, pivots, zero_above)
             ELSE LET swapped == RowSwap(M.m, piv_row, p)
                      cleared == Eliminate(swapped, piv_row, piv_col, zero_above)
                  IN  RowReduceFrom([M EXCEPT !.m = cleared], piv_row + 1,
                                    piv_col + 1, Append(pivots, piv_col),
                                    zero_above)

\* divide each pivot row by its pivot
Normalize(m, pivots) ==
    [i \in 1..Len(m) |->
        IF i <= Len(pivots)
        THEN [j \in 1..Len(m[i]) |-> RDiv(m[i][j], m[i][pivots[i]])]
        ELSE m[i]]

\* faulty variant of Rank: the matrix is taken to have full rank
RankAssumedFull(M) == IF M.rows < M.cols THEN M.rows ELSE M.cols

\* Matrix.rank(): the number of pivots of the echelon form
Rank(M) ==
    IF M.rows = 0 \/ M.cols = 0 THEN 0
    ELSE Len(RowReduceFrom(M, 1, 1, <<>>, FALSE).pivots)

Normalized(r) == [m |-> Normalize(r.m, r.pivots), pivots |-> r.pivots]

\* Matrix.rref(): reduced row echelon form and its pivot columns
RREF(M) == Normalized(RowReduceFrom(M, 1, 1, <<>>, TRUE))

\* index of column c among the pivot columns (0: c is a free column)
PivotRow(pivots, c) ==
    IF \E i \in 1..Len(pivots) : pivots[i] = c
    THEN CHOOSE i \in 1..Len(pivots) : pivots[i] = c
    ELSE 0

RECURSIVE FreeVars(_, _, _)
FreeVars(pivots, c, cols) ==
    IF c > cols THEN <<>>
    ELSE IF PivotRow(pivots, c) = 0
         THEN <<c>> \o FreeVars(pivots, c + 1, cols)
         ELSE FreeVars(pivots, c + 1, cols)

\* faulty variant of BasisVector: the reduced entries are not negated
BasisVectorNoNegate(reduced, pivots, free_var, cols) ==
    [j \in 1..cols |->
        IF j = free_var THEN ROne
        ELSE IF PivotRow(pivots, j) # 0
             THEN reduced[PivotRow(pivots, j)][free_var]
             ELSE RZero]

\* the basis vector of one free column: 1 at the free column, minus the
\* reduced entry of the free column at each pivot column
BasisVector(reduced, pivots, free_var, cols) ==
    [j \in 1..cols |->
        IF j = free_var THEN ROne
        ELSE IF PivotRow(pivots, j) # 0
             THEN RSub(RZero, reduced[PivotRow(pivots, j)][free_var])
             ELSE RZero]

\* faulty variant of Basis: every vector is built from the first free column
BasisFirstFree(r, free, cols) ==
    [k \in 1..Len(free) |-> BasisVector(r.m, r.pivots, free[1], cols)]

\* one basis vector per free column, in column order
Basis(r, free, cols) ==
    [k \in 1..Len(free) |-> BasisVector(r.m, r.pivots, free[k], cols)]

NullspaceOf(r, cols) == Basis(r, FreeVars(r.pivots, 1, cols), cols)

\* Matrix.nullspace(): the free columns of the reduced row echelon form
\* give the basis
Nullspace(M) == NullspaceOf(RREF(M), M.cols)

----------------------------------------------------------------------------
(* pi_theorem.py *)

Names(vs) == [i \in 1..Len(vs) |-> vs[i][1]]

Dimensions(vs) == [i \in 1..Len(vs) |-> vs[i][2]]

\* an exception: its type, its message, and the variable names the message
\* mentions (both messages raised here are fixed texts: they mention none)
NoError == [type |-> "", msg |-> "", names |-> {}]

ValueError(text) == [type |-> "ValueError", msg |-> text, names |-> {}]

\* the product of var_symbol ** exponent over zip(basis_vector, var_symbols),
\* simplified: a monomial, the set of its <<name, exponent>> factors with a
\* non-zero exponent
PiTerm(basis_vector, names) ==
    {<<names[j], basis_vector[j]>> :
        j \in {k \in 1..Len(names) :
                 k <= Len(basis_vector) /\ ~RIsZero(basis_vector[k])}}

\* faulty variant of DimMatrix: the transpose is left out
DimMatrixNoTranspose(vs) == Matrix(Dimensions(vs))

\* dim_matrix = sp.Matrix(dimensions).transpose()
DimMatrix(vs) == Transpose(Matrix(Dimensions(vs)))

\* pi_terms_count = n - rank
PiTermsCount(vs) == Len(vs) - Rank(DimMatrix(vs))

\* the lines print / pprint write when output is False
Printed(pi_terms) ==
    <<[line |-> "Dimensionless Numbers:", index |-> 0, term |-> {}]>> \o
    [i \in 1..Len(pi_terms) |-> [line |-> "Eq", index |-> i, term |-> pi_terms[i]]]

\* what a call raises, returns and prints when it raises err
Raised(err) ==
    [error |-> err, ret |-> [kind |-> "unset", terms |-> <<>>], printed |-> <<>>]

\* faulty variant of Deliver: the terms are printed whatever output is
DeliverAlwaysPrints(pi_terms, out) ==
    [error   |-> NoError,
     ret     |-> IF out THEN [kind |-> "list", terms |-> pi_terms]
                        ELSE [kind |-> "None", terms |-> <<>>],
     printed |-> Printed(pi_terms)]

\* the end of the call: the terms are returned when output is set and
\* printed otherwise
Deliver(pi_terms, out) ==
    [error   |-> NoError,
     ret     |-> IF out THEN [kind |-> "list", terms |-> pi_terms]
                        ELSE [kind |-> "None", terms |-> <<>>],
     printed |-> IF out THEN <<>> ELSE Printed(pi_terms)]

\* one Pi term per basis vector, in basis order
PiTermsOf(null_space, names) ==
    [k \in 1..Len(null_space) |-> PiTerm(null_space[k], names)]

\* the check of the number of basis vectors, then the terms
CheckedTerms(null_space, pi_terms_count, names, out) ==
    IF Len(null_space) # pi_terms_count
    THEN Raised(ValueError("The null space does not have the expected number of vectors."))
    ELSE Deliver(PiTermsOf(null_space, names), out)

\* the call from the dimension matrix on; the constructor's ValueError
\* leaves the call at once
Analyse(dim_matrix, names, out) ==
    IF dim_matrix.raised
    THEN Raised(ValueError("mismatched dimensions"))
    ELSE CheckedTerms(Nullspace(dim_matrix), Len(names) - Rank(dim_matrix), names, out)

\* apply_pi_theorem(variables, output): what the call raises, returns and
\* prints
apply_pi_theorem(vs, out) == Analyse(DimMatrix(vs), Names(vs), out)

----------------------------------------------------------------------------
(* A caller of the engine: one call on an arbitrary mapping *)

Vectors == UNION {[1..d -> Exponents] : d \in DimLengths}

Mappings ==
    {[i \in 1..Len(ds) |-> <<VarNames[i], ds[i]>>] :
        ds \in UNION {[1..n -> Vectors] : n \in 0..MaxVars}}

GuiIdle ==
    /\ self_variables = <<>>
    /\ table = <<>>
    /\ result_text = <<>>
    /\ result_text_clipboard = <<>>
    /\ clipboard = <<>>
    /\ message = ""
    /\ clicks = 0

EngineIdle ==
    /\ output = FALSE
    /\ pc = "ready"
    /\ result = [kind |-> "unset", terms |-> <<>>]
    /\ error = NoError
    /\ stdout = <<>>

\* three inputs over three base dimensions: one with a single dimensionless
\* product, one with none at all, and one with an exponent vector of length
\* 2 among vectors of length 3
Scenarios ==
    { << <<"x", <<1, 0, 0>>>>, <<"y", <<0, 1, 0>>>>, <<"z", <<1, 1, 0>>>> >>,
      << <<"a", <<1, 0, 0>>>>, <<"b", <<0, 1, 0>>>> >>,
      << <<"x", <<1, 0, 0>>>>, <<"y", <<0, 1>>>>, <<"z", <<1, 1, 0>>>> >> }

Init ==
    /\ variables \in Mappings \cup Scenarios
    /\ EngineIdle
    /\ GuiIdle

\* the caller's view of a finished call
Finished(r) ==
    /\ error' = r.error
    /\ result' = r.ret
    /\ stdout' = stdout \o r.printed
    /\ pc' = IF r.error = NoError THEN "returned" ELSE "raised"

Call(out) ==
    /\ pc = "ready"
    /\ output' = out
    /\ Finished(apply_pi_theorem(variables, out))
    /\ UNCHANGED variables
    /\ UNCHANGED guiVars

Next == \E out \in BOOLEAN : Call(out)

Spec == Init /\ [][Next]_vars

----------------------------------------------------------------------------
(* The caller of the module's own example: the tip-clearance variables of  *)
(* __main__ (any sub-mapping of them, in their order)                      *)

TipClearance ==
    << <<"tau",    <<0, 1, 0>>>>,
       <<"rho",    <<1, -3, 0>>>>,
       <<"dt",     <<0, 0, 1>>>>,
       <<"DeltaP", <<1, -1, -2>>>>,
       <<"Gamma",  <<0, 2, -1>>>>,
       <<"y_v",    <<0, 1, 0>>>>,
       <<"z_v",    <<0, 1, 0>>>>,
       <<"y_c",    <<0, 1, 0>>>>,
       <<"z_c",    <<0, 1, 0>>>>,
       <<"v",      <<0, 1, -1>>>>,
       <<"w",      <<0, 1, -1>>>> >>

RECURSIVE Restrict(_, _, _)
Restrict(vs, keep, i) ==
    IF i > Len(vs) THEN <<>>
    ELSE IF i \in keep THEN <<vs[i]>> \o Restrict(vs, keep, i + 1)
         ELSE Restrict(vs, keep, i + 1)

InitExample ==
    /\ variables \in {Restrict(TipClearance, keep, 1) :
                         keep \in SUBSET (1..Len(TipClearance))}
    /\ EngineIdle
    /\ GuiIdle

SpecExample == InitExample /\ [][Next]_vars

----------------------------------------------------------------------------
(* gui.py: texts are sequences of characters *)

DigitChars == <<"0", "1", "2", "3", "4", "5", "6", "7", "8", "9">>

IsDigit(c) == \E d \in 1..10 : DigitChars[d] = c

DigitValue(c) == (CHOOSE d \in 1..10 : DigitChars[d] = c) - 1

\* str.strip(): drop the blanks at both ends
RECURSIVE LStrip(_)
LStrip(text) ==
    IF Len(text) > 0 /\ Head(text) = " " THEN LStrip(Tail(text)) ELSE text

RECURSIVE RStrip(_)
RStrip(text) ==
    IF Len(text) > 0 /\ text[Len(text)] = " "
    THEN RStrip(SubSeq(text, 1, Len(text) - 1))
    ELSE text

Strip(text) == RStrip(LStrip(text))

RECURSIVE DigitsValue(_, _)
DigitsValue(text, acc) ==
    IF Len(text) = 0 THEN acc
    ELSE DigitsValue(Tail(text), 10 * acc + DigitValue(Head(text)))

AllDigits(text) == Len(text) > 0 /\ \A i \in 1..Len(text) : IsDigit(text[i])

\* int(text): an optional sign and decimal digits; anything else raises
\* ValueError
IsInt(text) ==
    IF Len(text) > 0 /\ Head(text) \in {"-", "+"}
    THEN AllDigits(Tail(text))
    ELSE AllDigits(text)

IntOf(text) ==
    IF Head(text) = "-" THEN 0 - DigitsValue(Tail(text), 0)
    ELSE IF Head(text) = "+" THEN DigitsValue(Tail(text), 0)
    ELSE DigitsValue(text, 0)

RECURSIVE NatText(_)
NatText(n) ==
    IF n < 10 THEN <<DigitChars[n + 1]>>
    ELSE Append(NatText(n \div 10), DigitChars[(n % 10) + 1])

\* str(n)
IntText(n) == IF n < 0 THEN <<"-">> \o NatText(0 - n) ELSE NatText(n)

\* the texts typed into the name field, into the M and L fields, and into
\* the T field
NameTexts == {<<>>, <<"a">>, <<" ", "a", " ">>, <<"b">>, <<"c">>}

DimTexts == {<<"1">>, <<" ", "0">>, <<"x">>}

TimeTexts == {<<"0", " ">>, <<>>}

HasKey(vs, name) == \E i \in 1..Len(vs) : vs[i][1] = name

\* del self.variables[var_name]
DelKey(vs, name) == SelectSeq(vs, LAMBDA v : v[1] # name)

RemoveAt(seq, k) == [i \in 1..(Len(seq) - 1) |-> IF i < k THEN seq[i] ELSE seq[i + 1]]

NoneFound == [index |-> 0, term |-> {}]

\* the lines 'Pi_i = term'
Lines(pi_terms) == [i \in 1..Len(pi_terms) |-> [index |-> i, term |-> pi_terms[i]]]

\* the body of calculate_pi_terms, r being what apply_pi_theorem did
Shown(r, rt, rtc) ==
    IF r.error.type = "ValueError"
    THEN [result_text |-> rt, result_text_clipboard |-> rtc,
          message |-> "Calculation Error"]
    ELSE IF r.ret.terms = <<>>
    THEN [result_text |-> <<NoneFound>>, result_text_clipboard |-> rtc,
          message |-> ""]
    ELSE [result_text |-> Lines(r.ret.terms),
          result_text_clipboard |-> rtc \o Lines(r.ret.terms),
          message |-> ""]

\* calculate_pi_terms: the new result_text, result_text_clipboard and the
\* message box shown, from the current ones
calculate_pi_terms(vs, rt, rtc) == Shown(apply_pi_theorem(vs, TRUE), rt, rtc)

\* the widgets after a calculation; msg is the message box the handler
\* showed before it
Display(c, msg) ==
    /\ result_text' = c.result_text
    /\ result_text_clipboard' = c.result_text_clipboard
    /\ message' = IF c.message # "" THEN c.message ELSE msg

\* the end of add_variable and delete_variable: "Run the calculation"
Recalculated(vs, tbl, msg) ==
    /\ self_variables' = vs
    /\ table' = tbl
    /\ Display(calculate_pi_terms(vs, result_text, result_text_clipboard), msg)

\* a table row: the four cells and the row index its delete button is
\* bound to (rows are numbered from 0, as in the table widget)
NewRow(var_name, var_m, var_l, var_t, row_position) ==
    [name |-> var_name, m |-> IntText(var_m), l |-> IntText(var_l),
     t |-> IntText(var_t), button |-> row_position]

\* add_variable once the dimensions are parsed
Added(var_name, var_m, var_l, var_t) ==
    IF var_name # <<>> /\ ~HasKey(self_variables, var_name)
    THEN Recalculated(Append(self_variables, <<var_name, <<var_m, var_l, var_t>>>>),
                      Append(table, NewRow(var_name, var_m, var_l, var_t, Len(table))),
                      "")
    ELSE Recalculated(self_variables, table,
                      "Invalid variable name or variable already exists")

\* add_variable, the user having typed the four fields
add_variable(name_text, m_text, l_text, t_text) ==
    /\ clicks < MaxClicks
    /\ clicks' = clicks + 1
    /\ UNCHANGED clipboard
    /\ IF ~(IsInt(Strip(m_text)) /\ IsInt(Strip(l_text)) /\ IsInt(Strip(t_text)))
       THEN /\ message' = "Dimensions must be integers"
            /\ UNCHANGED <<self_variables, table, result_text, result_text_clipboard>>
       ELSE Added(Strip(name_text), IntOf(Strip(m_text)), IntOf(Strip(l_text)),
                  IntOf(Strip(t_text)))

\* faulty variant of Rebind: the buttons keep their old row index
RebindNone(tbl, row) == tbl

\* the loop of delete_variable that binds the delete button of every row
\* from `row` on to its new index
Rebind(tbl, row) ==
    [i \in 1..Len(tbl) |-> IF i - 1 >= row THEN [tbl[i] EXCEPT !.button = i - 1] ELSE tbl[i]]

\* delete_variable(row): the new dictionary and table (unchanged when the
\* table has no such row)
Deleted(vs, tbl, row) ==
    IF row >= 0 /\ row < Len(tbl)
    THEN [variables |-> DelKey(vs, tbl[row + 1].name),
          table     |-> Rebind(RemoveAt(tbl, row + 1), row)]
    ELSE [variables |-> vs, table |-> tbl]

DeletedThenCalculated(d) == Recalculated(d.variables, d.table, "")

\* delete_variable(row)
delete_variable(row) ==
    /\ clicks < MaxClicks
    /\ clicks' = clicks + 1
    /\ UNCHANGED clipboard
    /\ IF row >= 0 /\ row < Len(table) /\ ~HasKey(self_variables, table[row + 1].name)
       THEN \* KeyError: the handler stops at the del statement
            /\ message' = "KeyError"
            /\ UNCHANGED <<self_variables, table, result_text, result_text_clipboard>>
       ELSE DeletedThenCalculated(Deleted(self_variables, table, row))

copy_to_clipboard ==
    /\ clicks < MaxClicks
    /\ clicks' = clicks + 1
    /\ clipboard' = result_text_clipboard
    /\ UNCHANGED <<self_variables, table, result_text, result_text_clipboard, message>>

InitGui ==
    /\ variables = <<>>
    /\ EngineIdle
    /\ GuiIdle

AddClick ==
    \E name_text \in NameTexts, m_text, l_text \in DimTexts, t_text \in TimeTexts :
        /\ add_variable(name_text, m_text, l_text, t_text)
        /\ UNCHANGED engineVars

\* a click on the delete button shown in the k-th row of the table
DeleteClick ==
    \E k \in 1..Len(table) :
        /\ delete_variable(table[k].button)
        /\ UNCHANGED engineVars

CopyClick ==
    /\ copy_to_clipboard
    /\ UNCHANGED engineVars

NextGui == AddClick \/ DeleteClick \/ CopyClick

SpecGui == InitGui /\ [][NextGui]_vars

----------------------------------------------------------------------------
(* Properties of the engine *)

\* the exponent of variable `name` in a Pi term (0 when it is absent)
ExponentOf(term, name) ==
    IF \E f \in term : f[1] = name
    THEN (CHOOSE f \in term : f[1] = name)[2]
    ELSE RZero

\* the exponent of base dimension d in a Pi term, each variable substituted
\* by its exponent vector: the sum over the variables j of e_j * vs[j][2][d]
RECURSIVE TermDimension(_, _, _, _)
TermDimension(term, vs, d, j) ==
    IF j > Len(vs) THEN RZero
    ELSE RAdd(RMul(ExponentOf(term, vs[j][1]), Rat(vs[j][2][d])),
              TermDimension(term, vs, d, j + 1))

Dimensionless(term, vs) ==
    /\ \A f \in term : \E j \in 1..Len(vs) : vs[j][1] = f[1]
    /\ \A d \in 1..Len(vs[1][2]) : RIsZero(TermDimension(term, vs, d, 1))

\* the exponent vectors do not all have the same length
Mismatched(vs) == \E i, j \in 1..Len(vs) : Len(vs[i][2]) # Len(vs[j][2])

\* a valid input: a non-empty mapping with exponent vectors of equal length
Valid(vs) == Len(vs) >= 1 /\ ~Mismatched(vs)

Min(a, b) == IF a < b THEN a ELSE b

\* the terms a finished call handed over: returned (output) or printed
Delivered ==
    IF output THEN result.terms
    ELSE [i \in 1..(Len(stdout) - 1) |-> stdout[i + 1].term]

\* C1: on a valid input, every Pi term returned with output=True is
\* dimensionless: substituting each variable by its exponent vector gives
\* exponent 0 in every base dimension.
C1_Dimensionless ==
    (pc = "returned" /\ output /\ Valid(variables)) =>
        \A k \in 1..Len(result.terms) : Dimensionless(result.terms[k], variables)

C1_Witness ==
    /\ pc = "returned" /\ output /\ Valid(variables)
    /\ \E k \in 1..Len(result.terms) :
          /\ Cardinality(result.terms[k]) >= 3
          /\ \E f \in result.terms[k] : f[2][2] > 1

\* C2: on a valid input with N variables and D base dimensions the call
\* raises nothing, rank <= min(D, N), pi_count = N - rank >= 0, exactly
\* pi_count terms are returned, and none when pi_count = 0.
C2_Count ==
    (pc # "ready" /\ Valid(variables)) =>
        /\ pc = "returned" /\ error = NoError
        /\ Rank(DimMatrix(variables)) <= Min(Len(variables[1][2]), Len(variables))
        /\ PiTermsCount(variables) >= 0
        /\ Len(Delivered) = PiTermsCount(variables)
        /\ PiTermsCount(variables) = 0 => Delivered = <<>>

C2_Witness ==
    /\ pc = "returned" /\ output
    /\ variables = << <<"a", <<1, 0, 0>>>>, <<"b", <<0, 1, 0>>>> >>
    /\ PiTermsCount(variables) = 0
    /\ result = [kind |-> "list", terms |-> <<>>]

\* C3 (as claimed): a call on a mapping with zero entries fails with
\* EmptyInputError and returns nothing.
C3_EmptyRaises ==
    (pc # "ready" /\ Len(variables) = 0) =>
        (pc = "raised" /\ error.type = "EmptyInputError")

\* C3 (amended): a call on a mapping with zero entries raises nothing; with
\* output=True it returns the empty sequence, otherwise it prints the header
\* line alone and returns None.
C3_EmptyReturnsEmpty ==
    (pc # "ready" /\ Len(variables) = 0) =>
        /\ pc = "returned" /\ error = NoError
        /\ output => (result = [kind |-> "list", terms |-> <<>>] /\ stdout = <<>>)
        /\ ~output => (result.kind = "None" /\ Len(stdout) = 1)

C3_Witness ==
    /\ pc = "returned" /\ Len(variables) = 0 /\ output
    /\ result = [kind |-> "list", terms |-> <<>>]

\* the variables whose exponent vector differs in length from the first one
Offending(vs) == {vs[i][1] : i \in {k \in 1..Len(vs) : Len(vs[k][2]) # Len(vs[1][2])}}

\* C4 (as claimed): when the exponent vectors differ in length the call
\* fails with DimensionMismatchError naming an offending variable, and no
\* Pi term is returned or printed.
C4_MismatchNamed ==
    (pc # "ready" /\ Mismatched(variables)) =>
        /\ pc = "raised"
        /\ error.type = "DimensionMismatchError"
        /\ error.names \cap Offending(variables) # {}
        /\ result.kind = "unset" /\ stdout = <<>>

\* C4 (amended): when the (non-empty) exponent vectors differ in length the
\* call fails with the ValueError of the matrix constructor, whose message
\* names no variable, and no Pi term is returned or printed.
C4_MismatchRaises ==
    (pc # "ready" /\ Mismatched(variables)) =>
        /\ pc = "raised"
        /\ error.type = "ValueError"
        /\ error.names = {}
        /\ result.kind = "unset" /\ stdout = <<>>

C4_Witness ==
    /\ pc = "raised"
    /\ variables = << <<"x", <<1, 0, 0>>>>, <<"y", <<0, 1>>>>, <<"z", <<1, 1, 0>>>> >>
    /\ Offending(variables) = {"y"}
    /\ result.kind = "unset" /\ stdout = <<>>

\* C5 (as claimed): every call prints nothing and hands its result over as
\* the returned sequence of Pi terms.
C5_NeverPrints ==
    pc = "returned" => (stdout = <<>> /\ result.kind = "list")

\* C5 (amended): no call modifies the caller's mapping; a call with
\* output=True prints nothing and returns the sequence of Pi terms; a call
\* with output=False (the default) prints the header line and one line per
\* Pi term and returns None.
C5_PureWhenOutput ==
    [][(pc = "ready" /\ pc' = "returned") =>
          /\ variables' = variables
          /\ output' => (stdout' = stdout /\ result'.kind = "list")
          /\ ~output' => (result'.kind = "None" /\ Len(stdout') >= Len(stdout) + 1)]_vars

C5_Witness ==
    /\ pc = "returned" /\ output /\ stdout = <<>>
    /\ result.kind = "list" /\ Len(result.terms) >= 1

Orderings(n) == {p \in [1..n -> 1..n] : \A i, j \in 1..n : i # j => p[i] # p[j]}

Permuted(vs, p) == [i \in 1..Len(vs) |-> vs[p[i]]]

\* C6: on a valid input, the call on any permutation of the variables
\* returns as many Pi terms as the call on the original order, each of them
\* dimensionless.
C6_PermutationInvariant ==
    (pc = "returned" /\ output /\ Valid(variables)) =>
        \A p \in Orderings(Len(variables)) :
            LET w == Permuted(variables, p)
                r == apply_pi_theorem(w, TRUE)
            IN  /\ r.error = NoError
                /\ Len(r.ret.terms) = Len(result.terms)
                /\ \A k \in 1..Len(r.ret.terms) : Dimensionless(r.ret.terms[k], w)

\* a permutation changes the composition of the terms
C6_Witness ==
    /\ pc = "returned" /\ output /\ Valid(variables) /\ Len(variables) = 3
    /\ Len(result.terms) = 1
    /\ \E p \in Orderings(3) :
          apply_pi_theorem(Permuted(variables, p), TRUE).ret.terms # result.terms

\* C7: the call on the 11 tip-clearance variables finds rank 3 and hands
\* over exactly 8 Pi terms, each of them dimensionless.
C7_TipClearance ==
    (pc # "ready" /\ variables = TipClearance) =>
        /\ pc = "returned"
        /\ Rank(DimMatrix(variables)) = 3
        /\ Len(Delivered) = 8
        /\ \A k \in 1..Len(Delivered) : Dimensionless(Delivered[k], variables)

C7_Witness ==
    /\ pc = "returned" /\ variables = TipClearance /\ ~output
    /\ Len(stdout) = 9
    /\ stdout[2].term = {<<"tau", <<-2, 1>>>>, <<"rho", <<-1, 1>>>>,
                         <<"dt", <<2, 1>>>>, <<"DeltaP", <<1, 1>>>>}

\* the exponent vector of a Pi term over the variables of vs
VectorOf(term, vs) == [j \in 1..Len(vs) |-> ExponentOf(term, vs[j][1])]

\* the matrix whose rows are the given vectors of length n
Rows(vectors, n) == [raised |-> FALSE, rows |-> Len(vectors), cols |-> n, m |-> vectors]

\* the integer exponent vectors of the monomials tried against the basis
Monomials(n) == [1..n -> Exponents]

RECURSIVE Dot(_, _, _)
Dot(row, w, j) ==
    IF j > Len(row) THEN RZero
    ELSE RAdd(RMul(row[j], w[j]), Dot(row, w, j + 1))

InNullSpace(M, w) == \A i \in 1..M.rows : RIsZero(Dot(M.m[i], w, 1))

\* C8: on a valid input, the exponent vectors of the returned Pi terms are
\* linearly independent and span the null space of the dimension matrix:
\* together with the rows of the matrix they span all N-vectors, and every
\* dimensionless monomial is a combination of them.
C8_IndependentSpanning ==
    (pc = "returned" /\ output /\ Valid(variables)) =>
        LET n == Len(variables)
            M == DimMatrix(variables)
            B == [k \in 1..Len(result.terms) |-> VectorOf(result.terms[k], variables)]
        IN  /\ Rank(Rows(B, n)) = Len(B)
            /\ Rank(Rows(M.m \o B, n)) = n
            /\ \A e \in Monomials(n) :
                  LET w == [j \in 1..n |-> Rat(e[j])]
                  IN  InNullSpace(M, w) => Rank(Rows(Append(B, w), n)) = Len(B)

C8_Witness ==
    /\ pc = "returned" /\ output /\ Valid(variables)
    /\ Len(result.terms) = 2
    /\ Rank(DimMatrix(variables)) = 1
    /\ \E e \in Monomials(Len(variables)) :
          /\ InNullSpace(DimMatrix(variables), [j \in 1..Len(variables) |-> Rat(e[j])])
          /\ \A k \in 1..2 : \E j \in 1..Len(variables) :
                Rat(e[j]) # VectorOf(result.terms[k], variables)[j]
          /\ \E j \in 1..Len(variables) : e[j] # 0

----------------------------------------------------------------------------
(* Properties of the window *)

\* the lines 'Pi_i = term' of the Pi terms of a variable set
ClipboardLines(vs) == Lines(apply_pi_theorem(vs, TRUE).ret.terms)

\* C9: what copy_to_clipboard would put on the clipboard (the content of
\* result_text_clipboard) is exactly the lines 'Pi_i = term' of the Pi terms
\* of the current variables, with nothing left over from earlier
\* calculations.
C9_ClipboardCurrent ==
    result_text_clipboard = ClipboardLines(self_variables)

\* C10: the table rows list exactly the keys of the dictionary, in its
\* order and without duplicates, the delete button of row i is bound to row
\* index i, and a click on it removes exactly the variable shown in that row
\* from the table and from the dictionary.
C10_TableMatchesDict ==
    /\ Len(table) = Len(self_variables)
    /\ \A i \in 1..Len(table) :
          /\ table[i].name = self_variables[i][1]
          /\ table[i].button = i - 1
          /\ <<table[i].m, table[i].l, table[i].t>> =
                [d \in 1..3 |-> IntText(self_variables[i][2][d])]
    /\ \A i, j \in 1..Len(table) : i # j => table[i].name # table[j].name
    /\ \A k \in 1..Len(table) :
          LET d == Deleted(self_variables, table, table[k].button)
          IN  /\ Len(d.table) = Len(table) - 1
              /\ Len(d.variables) = Len(self_variables) - 1
              /\ \A i \in 1..Len(d.table) :
                    /\ d.table[i].name = table[IF i < k THEN i ELSE i + 1].name
                    /\ d.variables[i] = self_variables[IF i < k THEN i ELSE i + 1]

\* three variables were added and the one in the middle row deleted
C10_Witness ==
    /\ clicks = 4
    /\ Len(table) = 2
    /\ table[1].name = <<"a">> /\ table[2].name = <<"c">>
    /\ table[2].button = 1
    /\ Names(self_variables) = << <<"a">>, <<"c">> >>

====
